---- MODULE Spec2Model ----
(***************************************************************************)
(* Model of ProjectCode (Snozxyx/Codify):                                  *)
(*   - the CodeEditor component's TabX suggestion workflow                 *)
(*     (requestAICompletion, acceptSuggestion, rejectSuggestion and the    *)
(*     auto-request effect),                                               *)
(*   - the documented AI-model failure handler,                            *)
(*   - the vector store (VectorDB::store_embedding / search_similar) and   *)
(*     the CodeIndexer that feeds it (indexCodebase / updateIndex),        *)
(*   - the IncrementalIndexer (onFileChanged / processIndexBatch),         *)
(*   - MemoryXSystem.buildContext,                                         *)
(*   - TabXProvider.getCompletions and AIService.completeCode,             *)
(*   - the Sidebar component (folders, chat, AI-suggested files).          *)
(***************************************************************************)
EXTENDS Integers, Sequences, FiniteSets, TLC

VARIABLES
    \* ---- CodeEditor (React state) ----
    code,                 \* useState code: a sequence of text chunks
    showSuggestion,       \* useState showSuggestion
    currentSuggestion,    \* useState currentSuggestion (NoSuggestion = null)
    isLoadingSuggestion,  \* useState isLoadingSuggestion
    timer,                \* the auto-request effect's setTimeout: "armed" / "none"
    requests,             \* one record per call of requestAICompletion
    numIssued,            \* number of calls of requestAICompletion so far
    edits,                \* number of onChange edits so far
    \* ---- documented AI-model failure handler ----
    modelCall,            \* last call through the try/catch handler
    \* ---- vector store and indexer ----
    table,                \* code_embeddings: a sequence of rows
    removedIds,           \* history: ids removed and not stored again
    lastQuery,            \* the last search_similar call and what it returned
    fileContent,          \* content of every project file (a list of blocks)
    indexedContent,       \* history: content each file was last fully indexed with
    job,                  \* the indexer job in progress
    lastPass,             \* history: the index pass completed last
    \* ---- IncrementalIndexer ----
    indexQueue,           \* indexQueue: the IndexTasks waiting for the processor
    lastBatch,            \* history: the tasks of the last processIndexBatch
    \* ---- MemoryXSystem ----
    aiContext,            \* the AIContext buildContext returned last
    gathered,             \* history: what the memory layers gave for it
    ctxBudget,            \* history: the context budget configured for it
    \* ---- TabXProvider and AIService.completeCode ----
    completions,          \* what the last getCompletions returned
    calls,                \* history: per level, the steps of its completion function
    completionResult,     \* what the last AIService.completeCode returned
    \* ---- Sidebar (React state) ----
    chatInput,            \* useState chatInput: a sequence of characters
    expandedFolders,      \* useState expandedFolders
    messages,             \* useState messages
    renderedMessages,     \* the messages of the last render, which the handlers close over
    suggestedFiles,       \* useState suggestedFiles
    isLoadingSuggestions, \* useState isLoadingSuggestions
    pendingReplies,       \* setTimeout callbacks of sendMessage not yet run
    loadState,            \* where the mount effect's loadSuggestions stands
    \* ---- Terminal (React state) ----
    history,              \* useState history: the terminal's lines
    renderedHistory,      \* the history of the last render, which handlers close over
    currentCommand,       \* useState currentCommand: a sequence of characters
    isThinking,           \* useState isThinking
    commands,             \* one record per command executeCommand has run
    \* ---- HeaderBar (React state) ----
    showMobileMenu,       \* useState showMobileMenu
    aiStatus,             \* useState aiStatus (NoStatus = null)
    polls,                \* one record per call of loadAIStatus
    headerMounted         \* whether the HeaderBar is mounted

editorVars == <<code, showSuggestion, currentSuggestion, isLoadingSuggestion,
                timer, requests, numIssued, edits>>
handlerVars == <<modelCall>>
storeVars == <<table, removedIds, lastQuery>>
indexerVars == <<fileContent, indexedContent, job, lastPass>>
incrementalVars == <<indexQueue, lastBatch>>
contextVars == <<aiContext, gathered, ctxBudget>>
tabxVars == <<completions, calls, completionResult>>
sidebarVars == <<chatInput, expandedFolders, messages, renderedMessages, suggestedFiles,
                 isLoadingSuggestions, pendingReplies, loadState>>
terminalVars == <<history, renderedHistory, currentCommand, isThinking, commands>>
headerVars == <<showMobileMenu, aiStatus, polls, headerMounted>>
lateVars == <<terminalVars, headerVars>>
restVars == <<incrementalVars, contextVars, tabxVars, sidebarVars, lateVars>>
notIndexingVars == <<editorVars, handlerVars, contextVars, tabxVars, sidebarVars,
                     lateVars>>
notContextVars == <<editorVars, handlerVars, storeVars, indexerVars, incrementalVars,
                    tabxVars, sidebarVars, lateVars>>
notTabxVars == <<editorVars, handlerVars, storeVars, indexerVars, incrementalVars,
                 contextVars, sidebarVars, lateVars>>
notSidebarVars == <<editorVars, handlerVars, storeVars, indexerVars, incrementalVars,
                    contextVars, tabxVars, lateVars>>
earlyVars == <<editorVars, handlerVars, storeVars, indexerVars, incrementalVars,
               contextVars, tabxVars, sidebarVars>>
notTerminalVars == <<earlyVars, headerVars>>
notHeaderVars == <<earlyVars, terminalVars>>
vars == <<editorVars, handlerVars, storeVars, indexerVars, restVars>>
notEditorVars == <<handlerVars, storeVars, indexerVars, restVars>>
notHandlerVars == <<editorVars, storeVars, indexerVars, restVars>>

(***************************************************************************)
(* Bounds of the model.                                                    *)
(***************************************************************************)
MaxRequests == 3
MaxEdits == 2
MaxK == 2
MaxQueue == 3
MaxItems == 2
MaxBudget == 3
MaxFiles == 2
MaxSends == 2
MaxCommands == 2
MaxPolls == 3

(***************************************************************************)
(* CodeEditor: text chunks.  The editor content is a sequence of chunks;   *)
(* code.includes('const ') is true iff one of its chunks contains the      *)
(* substring 'const '.                                                     *)
(***************************************************************************)
InitialCode == <<"const handleClick">>
ConstChunks == {"const handleClick", "const y", "const Button"}
Separator == "// AI Generated:"
\* values the Monaco onChange callback may deliver (value || "")
EditValues == {<<>>, <<"x">>, <<"const y">>}
\* code of a CompletionResult: MockAIService returns the Button component,
\* the Tauri backend any text
ResultCodes == {"const Button", "z"}

Includes(c) == \E i \in 1..Len(c) : c[i] \in ConstChunks

NoSuggestion == [kind |-> "null"]
Suggestion(r, c) == [kind |-> "result", req |-> r, code |-> c]

ReqIds == 1..MaxRequests
Terminal == {"Delivered", "Failed", "Cancelled"}
Last(s) == s[Len(s)]
NotIssued == [trace |-> <<>>, oracle |-> "none", atEdit |-> 0, superseded |-> FALSE]
Issued(r) == requests[r].trace # <<>>
Phase(r) == Last(requests[r].trace)
InFlight(r) == Issued(r) /\ Phase(r) \notin Terminal

InitEditor ==
    /\ code = InitialCode
    /\ showSuggestion = FALSE
    /\ currentSuggestion = NoSuggestion
    /\ isLoadingSuggestion = FALSE
    /\ timer = "armed"
    /\ requests = [r \in ReqIds |-> NotIssued]
    /\ numIssued = 0
    /\ edits = 0

\* onChange={(value) => setCode(value || "")}; the effect depends on code,
\* so the timeout is cleared and set again
UserEdit(v) ==
    /\ v # code
    /\ edits < MaxEdits
    /\ code' = v
    /\ edits' = edits + 1
    /\ timer' = "armed"
    /\ UNCHANGED <<showSuggestion, currentSuggestion, isLoadingSuggestion,
                   requests, numIssued>>
    /\ UNCHANGED notEditorVars

\* the condition of the auto-request timeout callback
AutoRequestGuardNoLoading == Includes(code) /\ ~showSuggestion
AutoRequestGuard == Includes(code) /\ ~showSuggestion /\ ~isLoadingSuggestion

\* requestAICompletion up to its await: setIsLoadingSuggestion(true), build
\* the AIContext, call AIService.completeCode(context, 'Component')
RequestAICompletion ==
    /\ numIssued < MaxRequests
    /\ numIssued' = numIssued + 1
    /\ isLoadingSuggestion' = TRUE
    /\ requests' = [requests EXCEPT ![numIssued + 1] =
                      [trace |-> <<"Idle", "ContextBuilding", "ModelInvocation">>,
                       oracle |-> "pending", atEdit |-> edits, superseded |-> FALSE]]
    /\ UNCHANGED <<code, showSuggestion, currentSuggestion, edits>>
    /\ UNCHANGED notEditorVars

\* the timeout fires and the condition holds: a request is issued; the
\* change of isLoadingSuggestion re-runs the effect, which sets a new timeout
AutoRequestFire ==
    /\ timer = "armed"
    /\ AutoRequestGuard
    /\ RequestAICompletion
    /\ timer' = "armed"

\* the timeout fires and the condition fails: nothing is requested.  A
\* request in flight whose code was edited since it was issued is marked:
\* the trigger for the newer code arrived while it was pending.
AutoRequestSkip ==
    /\ timer = "armed"
    /\ ~AutoRequestGuard
    /\ timer' = "none"
    /\ requests' = [r \in ReqIds |->
                      IF /\ InFlight(r)
                         /\ Includes(code) /\ ~showSuggestion
                         /\ edits > requests[r].atEdit
                      THEN [requests[r] EXCEPT !.superseded = TRUE]
                      ELSE requests[r]]
    /\ UNCHANGED <<code, showSuggestion, currentSuggestion, isLoadingSuggestion,
                   numIssued, edits>>
    /\ UNCHANGED notEditorVars

\* completeCode resolves: setCurrentSuggestion(result); setShowSuggestion(true);
\* finally setIsLoadingSuggestion(false)
OracleResolve(r, c) ==
    /\ requests[r].oracle = "pending"
    /\ currentSuggestion' = Suggestion(r, c)
    /\ showSuggestion' = TRUE
    /\ isLoadingSuggestion' = FALSE
    /\ requests' = [requests EXCEPT
                      ![r].trace = @ \o <<"PostProcessing", "Delivered">>,
                      ![r].oracle = "resolved"]
    /\ timer' = "armed"
    /\ UNCHANGED <<code, numIssued, edits>>
    /\ UNCHANGED notEditorVars

\* a faulty catch path that goes on to deliver a result after the failure
OracleRejectThenDeliver(r) ==
    /\ requests[r].oracle = "pending"
    /\ currentSuggestion' = Suggestion(r, "z")
    /\ showSuggestion' = TRUE
    /\ isLoadingSuggestion' = FALSE
    /\ requests' = [requests EXCEPT
                      ![r].trace = @ \o <<"Failed", "PostProcessing", "Delivered">>,
                      ![r].oracle = "rejected"]
    /\ timer' = "armed"
    /\ UNCHANGED <<code, numIssued, edits>>
    /\ UNCHANGED notEditorVars

\* completeCode rejects: console.error; finally setIsLoadingSuggestion(false)
OracleReject(r) ==
    /\ requests[r].oracle = "pending"
    /\ isLoadingSuggestion' = FALSE
    /\ requests' = [requests EXCEPT
                      ![r].trace = Append(@, "Failed"),
                      ![r].oracle = "rejected"]
    /\ timer' = "armed"
    /\ UNCHANGED <<code, showSuggestion, currentSuggestion, numIssued, edits>>
    /\ UNCHANGED notEditorVars

\* the promise returned by invoke is never settled (the backend does not
\* answer): the await never resumes
OracleHang(r) ==
    /\ requests[r].oracle = "pending"
    /\ requests' = [requests EXCEPT ![r].oracle = "hung"]
    /\ UNCHANGED <<code, showSuggestion, currentSuggestion, isLoadingSuggestion,
                   timer, numIssued, edits>>
    /\ UNCHANGED notEditorVars

\* an accept that puts the suggestion in the place of the content
AcceptReplacing ==
    /\ showSuggestion /\ currentSuggestion # NoSuggestion
    /\ code' = <<Separator, currentSuggestion.code>>
    /\ showSuggestion' = FALSE
    /\ currentSuggestion' = NoSuggestion
    /\ timer' = "armed"
    /\ UNCHANGED <<isLoadingSuggestion, requests, numIssued, edits>>
    /\ UNCHANGED notEditorVars

\* the Accept button (rendered only while showSuggestion && currentSuggestion)
AcceptSuggestion ==
    /\ showSuggestion /\ currentSuggestion # NoSuggestion
    /\ code' = IF currentSuggestion # NoSuggestion
               THEN code \o <<Separator, currentSuggestion.code>>
               ELSE code
    /\ showSuggestion' = FALSE
    /\ currentSuggestion' = NoSuggestion
    /\ timer' = "armed"
    /\ UNCHANGED <<isLoadingSuggestion, requests, numIssued, edits>>
    /\ UNCHANGED notEditorVars

\* a reject that hides the panel and keeps the suggestion
RejectHidesOnly ==
    /\ showSuggestion /\ currentSuggestion # NoSuggestion
    /\ showSuggestion' = FALSE
    /\ timer' = "armed"
    /\ UNCHANGED <<code, currentSuggestion, isLoadingSuggestion, requests, numIssued,
                   edits>>
    /\ UNCHANGED notEditorVars

\* the X button
RejectSuggestion ==
    /\ showSuggestion /\ currentSuggestion # NoSuggestion
    /\ showSuggestion' = FALSE
    /\ currentSuggestion' = NoSuggestion
    /\ timer' = "armed"
    /\ UNCHANGED <<code, isLoadingSuggestion, requests, numIssued, edits>>
    /\ UNCHANGED notEditorVars

(***************************************************************************)
(* The documented handler of AI model failures:                            *)
(*   try { return await aiModel.complete(context) }                        *)
(*   catch (error) { logger.error(..); return fallbackCompletion(context) }*)
(***************************************************************************)
NoCall == [oracle |-> "none", returned |-> "none"]
InitHandler == modelCall = NoCall

AIModelComplete(outcome) ==
    /\ modelCall' = IF outcome = "ok"
                    THEN [oracle |-> "ok", returned |-> "completion"]
                    ELSE [oracle |-> "error", returned |-> "fallback"]
    /\ modelCall' # modelCall
    /\ UNCHANGED notHandlerVars

(***************************************************************************)
(* Vector store: the code_embeddings table and its two statements.         *)
(* A block's embedding is a 2-dimensional integer vector.  The cosine      *)
(* similarity of v and q is represented by the exact fraction              *)
(*   sgn(v.q) * (v.q)^2 / (|v|^2 * |q|^2),                                 *)
(* the sign-preserving square of the cosine: it orders vectors exactly as  *)
(* array_cosine_similarity does.                                           *)
(***************************************************************************)
Files == {"a.ts", "b.ts"}
Texts == {"t1", "t2"}
Queries == {<<1, 0>>, <<0, 1>>}

\* embeddingModel.embed(text): the embedding model, a function of the text
Embed(text) == IF text = "t1" THEN <<1, 0>> ELSE <<-1, 1>>

\* id: `${file.path}:${block.startLine}`
BlockId(path, startLine) == <<path, startLine>>

\* the CodeEmbedding / the object handed to vectorDB.store for one block
Row(path, block) ==
    [id |-> BlockId(path, block.startLine), file_path |-> path,
     content |-> block.text, embedding |-> Embed(block.text)]

Dot(v, w) == v[1] * w[1] + v[2] * w[2]
Sgn(x) == IF x > 0 THEN 1 ELSE IF x < 0 THEN -1 ELSE 0
Similarity(v, q) ==
    [num |-> Sgn(Dot(v, q)) * Dot(v, q) * Dot(v, q), den |-> Dot(v, v) * Dot(q, q)]
SimLE(s1, s2) == s1.num * s2.den <= s2.num * s1.den

Min(a, b) == IF a < b THEN a ELSE b
Range(f) == {f[i] : i \in DOMAIN f}
Ids(t) == {t[i].id : i \in 1..Len(t)}
Perms(n) == {p \in [1..n -> 1..n] : \A i, j \in 1..n : p[i] = p[j] => i = j}

\* a plain INSERT: the row is added whatever the table holds
InsertOnly(t, row) == Append(t, row)
\* INSERT OR REPLACE INTO code_embeddings ... (id is the PRIMARY KEY): one
\* statement, which deletes the row of the same id and inserts the new one
store_embedding(t, row) ==
    LET keep(r) == r.id # row.id IN Append(SelectSeq(t, keep), row)

\* DELETE of one block id
remove(t, id) == LET keep(r) == r.id # id IN SelectSeq(t, keep)

\* removeFileFromIndex(filePath): every row of the file goes
removeFileFromIndex(t, path) == LET keep(r) == r.file_path # path IN SelectSeq(t, keep)

SearchResult(row, q) ==
    [id |-> row.id, file_path |-> row.file_path, content |-> row.content,
     similarity |-> Similarity(row.embedding, q)]

\* the same statement without its LIMIT clause
search_similar_unlimited(t, q, limit) ==
    LET n == Len(t)
    IN {[j \in 1..n |-> SearchResult(t[p[j]], q)] :
          p \in {p \in Perms(n) :
                   \A j \in 1..(n - 1) :
                      SimLE(Similarity(t[p[j + 1]].embedding, q),
                            Similarity(t[p[j]].embedding, q))}}
\* SELECT .., array_cosine_similarity(embedding, ?1) AS similarity
\* FROM code_embeddings ORDER BY similarity DESC LIMIT ?2
\* SQL leaves the order of rows of equal similarity open: the operator gives
\* every result the statement may return.
search_similar(t, q, limit) ==
    LET n == Len(t)
        m == Min(n, limit)
    IN {[j \in 1..m |-> SearchResult(t[p[j]], q)] :
          p \in {p \in Perms(n) :
                   \A j \in 1..(n - 1) :
                      SimLE(Similarity(t[p[j + 1]].embedding, q),
                            Similarity(t[p[j]].embedding, q))}}

NoQuery == [q |-> <<0, 0>>, k |-> 0, results |-> <<>>, removed |-> {}, live |-> 0]

InitStore ==
    /\ table = <<>>
    /\ removedIds = {}
    /\ lastQuery = NoQuery

\* a caller runs search_similar(query_embedding, limit); lastQuery keeps the
\* call and its result, with the ids removed and the number of ids live at
\* the moment of the call
Search(q, k) ==
    /\ \E res \in search_similar(table, q, k) :
          lastQuery' = [q |-> q, k |-> k, results |-> res,
                        removed |-> removedIds, live |-> Cardinality(Ids(table))]
    /\ lastQuery' # lastQuery
    /\ UNCHANGED <<table, removedIds, editorVars, handlerVars, indexerVars, restVars>>

\* blocks a caller of the store may upsert
StoreBlocks == [startLine : {1, 5}, text : Texts]
StoreRows == {Row("a.ts", b) : b \in StoreBlocks} \cup {Row("b.ts", b) : b \in {x \in StoreBlocks : x.startLine = 1}}

Upsert(row) ==
    /\ table' = store_embedding(table, row)
    /\ table' # table
    /\ removedIds' = removedIds \ {row.id}
    /\ UNCHANGED <<lastQuery, editorVars, handlerVars, indexerVars, restVars>>

Remove(id) ==
    /\ id \in Ids(table)
    /\ table' = remove(table, id)
    /\ removedIds' = removedIds \cup {id}
    /\ UNCHANGED <<lastQuery, editorVars, handlerVars, indexerVars, restVars>>

(***************************************************************************)
(* CodeIndexer: indexCodebase and updateIndex over the project's files.    *)
(* A file's content is the list of semantic blocks the parser extracts     *)
(* from it.                                                                *)
(***************************************************************************)
V1 == <<[startLine |-> 1, text |-> "t1"], [startLine |-> 5, text |-> "t2"]>>
V2 == <<[startLine |-> 1, text |-> "t2"]>>
Contents == {V1, V2}
FileOrder == <<"a.ts", "b.ts">>

RowsOf(path, content) == {Row(path, content[i]) : i \in 1..Len(content)}
FileRows(t, path) == LET of(r) == r.file_path = path IN SelectSeq(t, of)

IdleJob == [kind |-> "idle", stage |-> "idle", queue |-> <<>>, file |-> "",
            content |-> <<>>, todo |-> <<>>, before |-> <<>>, unchanged |-> FALSE]
NoPass == [kind |-> "none", file |-> "", unchanged |-> FALSE,
           before |-> <<>>, after |-> <<>>]

InitIndexer ==
    /\ fileContent = [f \in Files |-> V1]
    /\ indexedContent = [f \in Files |-> <<>>]
    /\ job = IdleJob
    /\ lastPass = NoPass

\* the file is edited on disk while nothing watches it
FileEdited(f, c) ==
    /\ c # fileContent[f]
    /\ fileContent' = [fileContent EXCEPT ![f] = c]
    /\ UNCHANGED <<indexedContent, job, lastPass, storeVars, editorVars, handlerVars, restVars>>

\* indexCodebase: const files = await this.getAllCodeFiles(projectPath)
StartIndexCodebase ==
    /\ job.kind = "idle"
    /\ job' = [IdleJob EXCEPT !.kind = "indexCodebase", !.stage = "parse",
                 !.queue = [i \in 1..Len(FileOrder) |->
                              [path |-> FileOrder[i], content |-> fileContent[FileOrder[i]]]]]
    /\ UNCHANGED <<fileContent, indexedContent, lastPass, storeVars, editorVars, handlerVars, restVars>>

\* for (const file of files): parse the file and extract its blocks
ParseFile ==
    /\ job.kind = "indexCodebase" /\ job.stage = "parse"
    /\ LET file == Head(job.queue)
       IN job' = [job EXCEPT !.stage = "store", !.queue = Tail(job.queue),
                    !.file = file.path, !.content = file.content,
                    !.todo = file.content,
                    !.before = FileRows(table, file.path),
                    !.unchanged = (indexedContent[file.path] = file.content)]
    /\ UNCHANGED <<fileContent, indexedContent, lastPass, storeVars, editorVars, handlerVars, restVars>>

\* updateIndex([change]): the change carries the file's new content; the
\* first step awaited is removeFileFromIndex
StartUpdateIndex(f, c) ==
    /\ job.kind = "idle"
    /\ fileContent' = [fileContent EXCEPT ![f] = c]
    /\ job' = [IdleJob EXCEPT !.kind = "updateIndex", !.stage = "remove",
                 !.file = f, !.content = c,
                 !.before = FileRows(table, f),
                 !.unchanged = (indexedContent[f] = c)]
    /\ UNCHANGED <<indexedContent, lastPass, storeVars, editorVars, handlerVars, restVars>>

\* await this.removeFileFromIndex(change.filePath)
RemoveFileFromIndex ==
    /\ job.kind = "updateIndex" /\ job.stage = "remove"
    /\ table' = removeFileFromIndex(table, job.file)
    /\ removedIds' = removedIds \cup Ids(FileRows(table, job.file))
    /\ job' = [job EXCEPT !.stage = "store", !.todo = job.content]
    /\ UNCHANGED <<fileContent, indexedContent, lastPass, lastQuery, editorVars, handlerVars, restVars>>

\* one turn of the loop over the file's blocks: embed the block, store it.
\* After the file's last block the pass over the file is complete.
StoreBlock ==
    /\ job.stage = "store"
    /\ job.todo # <<>>
    /\ LET row == Row(job.file, Head(job.todo))
           rest == Tail(job.todo)
           t2 == store_embedding(table, row)
       IN /\ table' = t2
          /\ removedIds' = removedIds \ {row.id}
          /\ IF rest # <<>>
             THEN /\ job' = [job EXCEPT !.todo = rest]
                  /\ UNCHANGED <<indexedContent, lastPass>>
             ELSE /\ indexedContent' = [indexedContent EXCEPT ![job.file] = job.content]
                  /\ lastPass' = [kind |-> job.kind, file |-> job.file,
                                  unchanged |-> job.unchanged,
                                  before |-> job.before,
                                  after |-> FileRows(t2, job.file)]
                  /\ job' = IF job.queue # <<>>
                            THEN [job EXCEPT !.stage = "parse", !.todo = <<>>]
                            ELSE IdleJob
    /\ UNCHANGED <<fileContent, lastQuery, editorVars, handlerVars, restVars>>

\* parser.parse(file.content) throws: indexCodebase has no try/catch, the
\* exception leaves the loop over the files and rejects the run; job.queue
\* keeps the files the loop never reached
ParseFails ==
    /\ job.kind = "indexCodebase" /\ job.stage = "parse"
    /\ job' = [job EXCEPT !.stage = "failed", !.file = Head(job.queue).path,
                 !.queue = Tail(job.queue), !.todo = <<>>]
    /\ UNCHANGED <<fileContent, indexedContent, lastPass, storeVars, editorVars, handlerVars, restVars>>

\* embeddingModel.embed(block.text) throws: the same, from inside the loop
\* over the file's blocks; the file is left partly indexed
EmbedFails ==
    /\ job.stage = "store"
    /\ job.todo # <<>>
    /\ job' = [job EXCEPT !.stage = "failed"]
    /\ indexedContent' = [indexedContent EXCEPT ![job.file] = <<>>]
    /\ UNCHANGED <<fileContent, lastPass, storeVars, editorVars, handlerVars, restVars>>

\* the caller has seen the rejection: the indexer is free again
RunRejected ==
    /\ job.stage = "failed"
    /\ job' = IdleJob
    /\ UNCHANGED <<fileContent, indexedContent, lastPass, storeVars, editorVars, handlerVars, restVars>>

(***************************************************************************)
(* IncrementalIndexer: onFileChanged puts an IndexTask on the queue, the   *)
(* background processor hands the queued tasks to processIndexBatch.  All  *)
(* files of the model have one language, so a batch is one group and one   *)
(* transaction of the vector store.  The task's timestamp is never read    *)
(* and is left out.                                                        *)
(***************************************************************************)
IndexTask(f, c) == [type |-> "update", filePath |-> f, content |-> c]

\* the rows of a batch, in the order of its tasks and of each task's blocks
RECURSIVE BatchRows(_)
BatchRows(tasks) ==
    IF tasks = <<>> THEN <<>>
    ELSE [i \in 1..Len(Head(tasks).content) |->
             Row(Head(tasks).filePath, Head(tasks).content[i])]
         \o BatchRows(Tail(tasks))

\* vectorDB.batchUpdate(embeddings): the given entries are upserted, each
\* replacing the entry of its block id, in one transaction
RECURSIVE batchUpdate(_, _)
batchUpdate(t, rows) ==
    IF rows = <<>> THEN t
    ELSE batchUpdate(store_embedding(t, Head(rows)), Tail(rows))

NoBatch == [tasks |-> <<>>]

InitIncremental ==
    /\ indexQueue = <<>>
    /\ lastBatch = NoBatch

\* onFileChanged(filePath, content): the file now has this content
OnFileChanged(f, c) ==
    /\ Len(indexQueue) < MaxQueue
    /\ fileContent' = [fileContent EXCEPT ![f] = c]
    /\ indexQueue' = Append(indexQueue, IndexTask(f, c))
    /\ UNCHANGED <<lastBatch, indexedContent, job, lastPass, storeVars>>
    /\ UNCHANGED notIndexingVars

\* processIndexBatch(tasks) on the first n queued tasks: every task is
\* parsed and embedded, then the store is updated
ProcessIndexBatch(n) ==
    /\ n \in 1..Len(indexQueue)
    /\ LET tasks == SubSeq(indexQueue, 1, n)
           rows == BatchRows(tasks)
       IN /\ table' = batchUpdate(table, rows)
          /\ removedIds' = removedIds \ {rows[i].id : i \in 1..Len(rows)}
          /\ indexedContent' =
                [f \in Files |->
                   LET mine == {i \in 1..n : tasks[i].filePath = f}
                   IN IF mine = {} THEN indexedContent[f]
                      ELSE tasks[CHOOSE i \in mine : \A j \in mine : j <= i].content]
          /\ lastBatch' = [tasks |-> tasks]
    /\ indexQueue' = SubSeq(indexQueue, n + 1, Len(indexQueue))
    /\ UNCHANGED <<fileContent, job, lastPass, lastQuery>>
    /\ UNCHANGED notIndexingVars

(***************************************************************************)
(* MemoryXSystem.buildContext: the context of a completion request is      *)
(* gathered from the memory layers and returned as one AIContext.  A       *)
(* category's material is a sequence of items of size one.                 *)
(***************************************************************************)
Categories == {"immediate", "project", "session", "user"}
ItemLists(c) == {[i \in 1..n |-> <<c, i>>] : n \in 0..MaxItems}
Priorities == {"high", "low"}

NoContext == [c \in Categories |-> <<>>] @@ [priority |-> "none"]

InitContext ==
    /\ aiContext = NoContext
    /\ gathered = [c \in Categories |-> <<>>]
    /\ ctxBudget = 0

\* buildContext(request): userPatterns, projectContext, sessionHistory and
\* the current file context are put into the returned object as they come;
\* pr is the value of calculateContextPriority(request)
BuildContext(budget, imm, proj, sess, usr, pr) ==
    /\ ctxBudget' = budget
    /\ gathered' = [c \in Categories |->
                      CASE c = "immediate" -> imm
                        [] c = "project" -> proj
                        [] c = "session" -> sess
                        [] c = "user" -> usr]
    /\ aiContext' = [immediate |-> imm, project |-> proj, user |-> usr,
                     session |-> sess, priority |-> pr]
    /\ UNCHANGED notContextVars

(***************************************************************************)
(* TabXProvider.getCompletions and AIService.completeCode.  A confidence   *)
(* is a number of thousandths: 920 stands for 0.92.  An intent's           *)
(* complexity is a number of tenths.                                       *)
(***************************************************************************)
Levels == <<"line", "block", "component", "feature">>
LevelSet == {"line", "block", "component", "feature"}
\* type CompletionLevel of the AIService
CompletionLevels == {"Line", "Block", "Component", "Feature"}
\* scores the scoring may compute before it bounds them
RawScores == {-100, 400, 1200}
\* intent.complexity as analyzeUserIntent may report it
Complexities == {7, 8}
\* if (intent.complexity < 0.8) return []
ComplexityThreshold == 8
\* MockAIService.completeCode: confidence: 0.92
MockConfidence == 920

Max(a, b) == IF a > b THEN a ELSE b
\* the score as it is, not bounded
Unclipped(raw) == raw
\* calculateConfidence(response, context): the combined score, clipped to
\* [0, 1]
calculateConfidence(raw) == Max(0, Min(1000, raw))

\* Math.round(confidence * 100): the nearest integer, halves upwards
DisplayedPercent(conf) == ((conf * 100 + 500) \div 1000)

TabXCompletion(level, conf, files) ==
    [type |-> level, level |-> level, confidence |-> conf, files |-> files]

\* getLineCompletion: one call of aiModel.complete, one completion
getLineCompletion(raw) ==
    <<TabXCompletion("line", calculateConfidence(raw), <<>>)>>
\* getBlockCompletion, getComponentCompletion: the same for their levels
getBlockCompletion(raw) ==
    <<TabXCompletion("block", calculateConfidence(raw), <<>>)>>
getComponentCompletion(raw) ==
    <<TabXCompletion("component", calculateConfidence(raw), <<>>)>>
\* getFeatureCompletion: nothing for an intent of complexity under 0.8,
\* else one completion whose files are parsed from the response
getFeatureCompletion(cx, raw, nfiles) ==
    IF cx < ComplexityThreshold THEN <<>>
    ELSE <<TabXCompletion("feature", calculateConfidence(raw),
                          [i \in 1..nfiles |-> <<"file", i>>])>>

\* the steps of getFeatureCompletion in the order the code takes them
FeatureSteps(cx) ==
    IF cx < ComplexityThreshold THEN <<"analyzeUserIntent">>
    ELSE <<"analyzeUserIntent", "complete", "parseMultiFileResponse">>

\* rankAndFilterCompletions: the completions in descending order of
\* confidence, equal ones in the order they came
RECURSIVE InsertRanked(_, _)
InsertRanked(c, cs) ==
    IF cs = <<>> THEN <<c>>
    ELSE IF c.confidence >= Head(cs).confidence THEN <<c>> \o cs
    ELSE <<Head(cs)>> \o InsertRanked(c, Tail(cs))
RECURSIVE rankAndFilterCompletions(_)
rankAndFilterCompletions(cs) ==
    IF cs = <<>> THEN <<>>
    ELSE InsertRanked(Head(cs), rankAndFilterCompletions(Tail(cs)))

NoCompletionResult ==
    [service |-> "none", confidence |-> 0, level |-> "none", requested |-> "none"]

InitTabx ==
    /\ completions = <<>>
    /\ calls = [l \in LevelSet |-> <<>>]
    /\ completionResult = NoCompletionResult

\* getCompletions(position, context): the four level functions run under
\* Promise.all, their results are flattened, ranked and filtered
GetCompletions(cx, raw, nfiles) ==
    /\ calls' = [l \in LevelSet |->
                   IF l = "feature" THEN FeatureSteps(cx) ELSE <<"complete">>]
    /\ completions' =
          rankAndFilterCompletions(
             getLineCompletion(raw["line"]) \o getBlockCompletion(raw["block"])
             \o getComponentCompletion(raw["component"])
             \o getFeatureCompletion(cx, raw["feature"], nfiles))
    /\ UNCHANGED completionResult
    /\ UNCHANGED notTabxVars

\* a mock whose result carries a fixed level, as it carries a fixed id
MockFixedLevel(level) ==
    /\ completionResult' =
          [service |-> "mock", confidence |-> MockConfidence, level |-> "Component",
           requested |-> level]
    /\ completionResult' # completionResult
    /\ UNCHANGED <<completions, calls>>
    /\ UNCHANGED notTabxVars

\* MockAIService.completeCode(context, level): the fixed result, its level
\* the parameter; requested records the argument of the call
MockCompleteCode(level) ==
    /\ completionResult' =
          [service |-> "mock", confidence |-> MockConfidence, level |-> level,
           requested |-> level]
    /\ completionResult' # completionResult
    /\ UNCHANGED <<completions, calls>>
    /\ UNCHANGED notTabxVars

\* the backend command ai_complete_code(context, level): a candidate of the
\* level asked for, its confidence computed by the scoring
ai_complete_code(level, raw) ==
    [confidence |-> calculateConfidence(raw), level |-> level]

\* TauriAIService.completeCode(context, level): invoke('ai_complete_code',
\* {context, level}), the command's result returned as it is
TauriCompleteCode(level, raw) ==
    /\ completionResult' =
          [service |-> "tauri", confidence |-> ai_complete_code(level, raw).confidence,
           level |-> ai_complete_code(level, raw).level, requested |-> level]
    /\ completionResult' # completionResult
    /\ UNCHANGED <<completions, calls>>
    /\ UNCHANGED notTabxVars

(***************************************************************************)
(* Sidebar: the file explorer, the chat and the AI-suggested files.  A     *)
(* string is a sequence of characters; a ProjectFile is given by its name  *)
(* and its ai_relevance in hundredths.                                     *)
(***************************************************************************)
FolderNames == {"src", "components"}
ChatInputs == {<<>>, <<" ">>, <<"h", "i">>, <<" ", "o", "k", " ">>}
chatHistory ==
    <<[role |-> "user", content |-> <<"q">>],
      [role |-> "assistant", content |-> <<"a">>]>>
AssistantReply == [role |-> "assistant", content |-> <<"r">>]

\* String.prototype.trim
RECURSIVE TrimLeft(_)
TrimLeft(str) ==
    IF str # <<>> /\ Head(str) = " " THEN TrimLeft(Tail(str)) ELSE str
RECURSIVE TrimRight(_)
TrimRight(str) ==
    IF str # <<>> /\ str[Len(str)] = " "
    THEN TrimRight(SubSeq(str, 1, Len(str) - 1)) ELSE str
Trim(str) == TrimRight(TrimLeft(str))

ProjectFile(name, relevance) == [name |-> name, ai_relevance |-> relevance]
\* the list in the catch branch of loadSuggestions
FallbackFiles ==
    <<ProjectFile("Button.tsx", 95), ProjectFile("helpers.ts", 80),
      ProjectFile("globals.css", 60)>>
\* what getAISuggestedFiles may resolve with: MockAIService's one file, or
\* any list of the backend
ServiceFiles == {<<>>, <<ProjectFile("Button.tsx", 95)>>, <<ProjectFile("app.css", 50)>>}

InitSidebar ==
    /\ chatInput = <<>>
    /\ expandedFolders = {"src"}
    /\ messages = chatHistory
    /\ renderedMessages = chatHistory
    /\ suggestedFiles = <<>>
    /\ isLoadingSuggestions = FALSE
    /\ pendingReplies = 0
    /\ loadState = "mounting"

\* a toggle that only ever expands
AddOnly(expanded, folderName) == expanded \cup {folderName}

\* the set toggleFolder builds from the current one
newExpanded(expanded, folderName) ==
    IF folderName \in expanded THEN expanded \ {folderName}
    ELSE expanded \cup {folderName}

\* toggleFolder: setExpandedFolders(newExpanded); a click is rendered at once
ToggleFolder(folderName) ==
    /\ expandedFolders' = newExpanded(expandedFolders, folderName)
    /\ renderedMessages' = messages
    /\ UNCHANGED <<chatInput, messages, suggestedFiles, isLoadingSuggestions,
                   pendingReplies, loadState>>
    /\ UNCHANGED notSidebarVars

\* onChange of the chat input: setChatInput(e.target.value)
SetChatInput(v) ==
    /\ v # chatInput
    /\ chatInput' = v
    /\ renderedMessages' = messages
    /\ UNCHANGED <<expandedFolders, messages, suggestedFiles, isLoadingSuggestions,
                   pendingReplies, loadState>>
    /\ UNCHANGED notSidebarVars

\* the messages sent so far: the user's messages after the initial history
Sends == Cardinality({i \in 1..Len(messages) : messages[i].role = "user"}) - 1

\* sendMessage: nothing for a blank input; else setMessages(newMessages),
\* newMessages being built from the messages of the handler's render, the
\* input cleared and the reply timeout set
SendMessage ==
    /\ Trim(chatInput) # <<>>
    /\ Sends < MaxSends
    /\ messages' = Append(renderedMessages, [role |-> "user", content |-> chatInput])
    /\ renderedMessages' = messages'
    /\ chatInput' = <<>>
    /\ pendingReplies' = pendingReplies + 1
    /\ UNCHANGED <<expandedFolders, suggestedFiles, isLoadingSuggestions, loadState>>
    /\ UNCHANGED notSidebarVars

\* the timeout callback of sendMessage: setMessages(prev => [...prev, reply])
ReplyTimeout ==
    /\ pendingReplies > 0
    /\ messages' = Append(messages, AssistantReply)
    /\ pendingReplies' = pendingReplies - 1
    /\ UNCHANGED <<chatInput, expandedFolders, renderedMessages, suggestedFiles,
                   isLoadingSuggestions, loadState>>
    /\ UNCHANGED notSidebarVars

\* React renders the sidebar with the updates queued since the last render
RenderSidebar ==
    /\ renderedMessages # messages
    /\ renderedMessages' = messages
    /\ UNCHANGED <<chatInput, expandedFolders, messages, suggestedFiles,
                   isLoadingSuggestions, pendingReplies, loadState>>
    /\ UNCHANGED notSidebarVars

\* the mount effect: loadSuggestions up to its await
LoadSuggestions ==
    /\ loadState = "mounting"
    /\ isLoadingSuggestions' = TRUE
    /\ loadState' = "pending"
    /\ UNCHANGED <<chatInput, expandedFolders, messages, renderedMessages, suggestedFiles,
                   pendingReplies>>
    /\ UNCHANGED notSidebarVars

\* getAISuggestedFiles resolves: try branch, then finally
LoadResolved(files) ==
    /\ loadState = "pending"
    /\ suggestedFiles' = files
    /\ isLoadingSuggestions' = FALSE
    /\ loadState' = "resolved"
    /\ UNCHANGED <<chatInput, expandedFolders, messages, renderedMessages, pendingReplies>>
    /\ UNCHANGED notSidebarVars

\* getAISuggestedFiles rejects: catch branch, then finally
LoadRejected ==
    /\ loadState = "pending"
    /\ suggestedFiles' = FallbackFiles
    /\ isLoadingSuggestions' = FALSE
    /\ loadState' = "rejected"
    /\ UNCHANGED <<chatInput, expandedFolders, messages, renderedMessages, pendingReplies>>
    /\ UNCHANGED notSidebarVars

(***************************************************************************)
(* Terminal: executeCommand and the answers of                             *)
(* AIService.executeTerminalCommand.  A line of the history carries, next  *)
(* to its type and content, the number of the command it belongs to (0 for *)
(* the initial lines); its timestamp is never read and is left out.  An    *)
(* event handler closes over the history of the last render: updates made  *)
(* by a promise continuation are rendered in a later task, and a key press *)
(* may come before it.                                                     *)
(***************************************************************************)
TerminalLine(type, content, cmd) == [type |-> type, content |-> content, cmd |-> cmd]
initialHistory ==
    <<TerminalLine("output", <<"banner">>, 0),
      TerminalLine("output", <<"enabled">>, 0),
      TerminalLine("command", <<"npm run dev">>, 0),
      TerminalLine("output", <<"ready">>, 0),
      TerminalLine("suggestion", <<"AI suggests", "build">>, 0)>>
CommandInputs == {<<>>, <<" ">>, <<"l", "s">>, <<"g", " ", "s">>}

\* String.prototype.split(' '): the pieces between the spaces
RECURSIVE Split(_, _)
Split(str, piece) ==
    IF str = <<>> THEN <<piece>>
    ELSE IF Head(str) = " " THEN <<piece>> \o Split(Tail(str), <<>>)
    ELSE Split(Tail(str), Append(piece, Head(str)))
\* the TerminalCommand sent: command.split(' ')[0] and .slice(1)
TerminalCommand(command) ==
    [command |-> Head(Split(command, <<>>)), args |-> Tail(Split(command, <<>>)),
     working_dir |-> "/current/project"]

\* a TerminalResponse; error "" stands for no error
TerminalResponses ==
    [output : {"out"}, error : {"", "err"},
     suggestions : {<<>>, <<"s1">>, <<"s1", "s2">>}]
NoResponse == [output |-> "", error |-> "", suggestions |-> <<>>]

\* the outputs without the line of response.error
OutputsWithoutError(response, cmd) ==
    <<TerminalLine("output", <<response.output>>, cmd)>>
    \o [i \in 1..Len(response.suggestions) |->
          TerminalLine("suggestion", <<"AI suggests", response.suggestions[i]>>, cmd)]
\* const outputs: the output line, the error line if response.error, one
\* suggestion line per suggestion
TerminalOutputs(response, cmd) ==
    <<TerminalLine("output", <<response.output>>, cmd)>>
    \o (IF response.error # ""
        THEN <<TerminalLine("error", <<response.error>>, cmd)>> ELSE <<>>)
    \o [i \in 1..Len(response.suggestions) |->
          TerminalLine("suggestion", <<"AI suggests", response.suggestions[i]>>, cmd)]

InitTerminal ==
    /\ history = initialHistory
    /\ renderedHistory = initialHistory
    /\ currentCommand = <<>>
    /\ isThinking = FALSE
    /\ commands = <<>>

\* onChange of the input: setCurrentCommand(e.target.value)
SetCurrentCommand(v) ==
    /\ v # currentCommand
    /\ currentCommand' = v
    /\ renderedHistory' = history
    /\ UNCHANGED <<history, isThinking, commands>>
    /\ UNCHANGED notTerminalVars

\* Enter: executeCommand(currentCommand) up to its await; a blank command
\* returns at once.  setHistory(newHistory) replaces the history by the
\* rendered one with the command line added.
ExecuteCommand ==
    /\ Trim(currentCommand) # <<>>
    /\ Len(commands) < MaxCommands
    /\ LET cmd == Len(commands) + 1
           newHistory == Append(renderedHistory,
                                TerminalLine("command", currentCommand, cmd))
       IN /\ history' = newHistory
          /\ renderedHistory' = newHistory
          /\ commands' = Append(commands,
                [content |-> currentCommand, request |-> TerminalCommand(currentCommand),
                 state |-> "pending", response |-> NoResponse])
    /\ currentCommand' = <<>>
    /\ isThinking' = TRUE
    /\ UNCHANGED notTerminalVars

\* executeTerminalCommand resolves for command cmd: try branch and finally;
\* setHistory(prev => [...prev, ...outputs])
CommandResolved(cmd, response) ==
    /\ cmd \in 1..Len(commands)
    /\ commands[cmd].state = "pending"
    /\ history' = history \o TerminalOutputs(response, cmd)
    /\ isThinking' = FALSE
    /\ commands' = [commands EXCEPT ![cmd].state = "resolved",
                                    ![cmd].response = response]
    /\ UNCHANGED <<currentCommand, renderedHistory>>
    /\ UNCHANGED notTerminalVars

\* executeTerminalCommand rejects for command cmd: catch branch and finally
CommandRejected(cmd) ==
    /\ cmd \in 1..Len(commands)
    /\ commands[cmd].state = "pending"
    /\ history' = Append(history,
                         TerminalLine("error", <<"Error executing command", "e">>, cmd))
    /\ isThinking' = FALSE
    /\ commands' = [commands EXCEPT ![cmd].state = "rejected"]
    /\ UNCHANGED <<currentCommand, renderedHistory>>
    /\ UNCHANGED notTerminalVars

\* the render React has scheduled for the updates of a continuation
RenderTerminal ==
    /\ renderedHistory # history
    /\ renderedHistory' = history
    /\ UNCHANGED <<history, currentCommand, isThinking, commands>>
    /\ UNCHANGED notTerminalVars

(***************************************************************************)
(* HeaderBar: the mount effect calls loadAIStatus at once and then every   *)
(* 30 seconds; its cleanup clears the interval.                            *)
(***************************************************************************)
NoStatus == [kind |-> "null"]
\* what getAIStatus may resolve with
Statuses == {[kind |-> "status", model_loaded |-> TRUE],
             [kind |-> "status", model_loaded |-> FALSE]}

InitHeader ==
    /\ showMobileMenu = FALSE
    /\ aiStatus = NoStatus
    /\ polls = <<>>
    /\ headerMounted = TRUE

\* onClick of the menu button: setShowMobileMenu(!showMobileMenu)
ToggleMobileMenu ==
    /\ headerMounted
    /\ showMobileMenu' = ~showMobileMenu
    /\ UNCHANGED <<aiStatus, polls, headerMounted>>
    /\ UNCHANGED notHeaderVars

\* loadAIStatus up to its await, called on mount and by the interval
LoadAIStatus ==
    /\ headerMounted
    /\ Len(polls) < MaxPolls
    /\ polls' = Append(polls, [state |-> "pending", status |-> NoStatus])
    /\ UNCHANGED <<showMobileMenu, aiStatus, headerMounted>>
    /\ UNCHANGED notHeaderVars

\* getAIStatus resolves for poll p: setAIStatus(status); React drops the
\* update of a component that is no longer mounted
StatusResolved(p, status) ==
    /\ p \in 1..Len(polls)
    /\ polls[p].state = "pending"
    /\ polls' = [polls EXCEPT ![p] = [state |-> IF headerMounted THEN "resolved"
                                                ELSE "dropped",
                                      status |-> status]]
    /\ aiStatus' = IF headerMounted THEN status ELSE aiStatus
    /\ UNCHANGED <<showMobileMenu, headerMounted>>
    /\ UNCHANGED notHeaderVars

\* getAIStatus rejects for poll p: console.error
StatusRejected(p) ==
    /\ p \in 1..Len(polls)
    /\ polls[p].state = "pending"
    /\ polls' = [polls EXCEPT ![p].state = "rejected"]
    /\ UNCHANGED <<showMobileMenu, aiStatus, headerMounted>>
    /\ UNCHANGED notHeaderVars

\* the component is unmounted: the cleanup clears the interval
UnmountHeader ==
    /\ headerMounted
    /\ headerMounted' = FALSE
    /\ UNCHANGED <<showMobileMenu, aiStatus, polls>>
    /\ UNCHANGED notHeaderVars

(***************************************************************************)
(* Specifications.                                                         *)
(***************************************************************************)
Init ==
    /\ InitEditor /\ InitHandler /\ InitStore /\ InitIndexer
    /\ InitIncremental
    /\ InitContext
    /\ InitTabx
    /\ InitSidebar
    /\ InitTerminal
    /\ InitHeader

\* the editor, with the oracle and the user as its environment
EditorStep ==
    \/ \E v \in EditValues : UserEdit(v)
    \/ AutoRequestFire
    \/ AutoRequestSkip
    \/ \E r \in ReqIds, c \in ResultCodes : OracleResolve(r, c)
    \/ \E r \in ReqIds : OracleReject(r)
    \/ \E r \in ReqIds : OracleHang(r)
    \/ AcceptSuggestion
    \/ RejectSuggestion

\* the completion path: the editor and the model-layer failure handler
NextEditor ==
    \/ EditorStep
    \/ \E o \in {"ok", "error"} : AIModelComplete(o)

SpecEditor == Init /\ [][NextEditor]_vars

\* every step of the editor and every answer of an oracle that has not hung
\* is eventually taken
FairSpecEditor ==
    /\ Init /\ [][EditorStep]_vars
    /\ WF_vars(AutoRequestFire)
    /\ WF_vars(AutoRequestSkip)
    /\ \A r \in ReqIds : WF_vars(OracleReject(r) \/ \E c \in ResultCodes : OracleResolve(r, c))

\* the vector store under arbitrary upserts, removes and queries
NextStore ==
    \/ \E row \in StoreRows : Upsert(row)
    \/ \E id \in {r.id : r \in StoreRows} : Remove(id)
    \/ \E q \in Queries, k \in 0..MaxK : Search(q, k)

SpecStore == Init /\ [][NextStore]_vars

\* the indexer; VisibleBlocks gives what a query concurrent with it sees
NextIndexer ==
    \/ \E f \in Files, c \in Contents : FileEdited(f, c)
    \/ StartIndexCodebase
    \/ ParseFile
    \/ \E f \in Files, c \in Contents : StartUpdateIndex(f, c)
    \/ RemoveFileFromIndex
    \/ StoreBlock
    \/ ParseFails
    \/ EmbedFails
    \/ RunRejected

SpecIndexer == Init /\ [][NextIndexer]_vars

\* the incremental indexer with the file watcher as its environment
NextIncremental ==
    \/ \E f \in Files, c \in Contents : OnFileChanged(f, c)
    \/ \E n \in 1..MaxQueue : ProcessIndexBatch(n)

SpecIncremental == Init /\ [][NextIncremental]_vars

\* the context assembler under arbitrary requests and memory contents
NextContext ==
    \E budget \in 1..MaxBudget, pr \in Priorities :
       \E imm \in ItemLists("immediate"), proj \in ItemLists("project"),
          sess \in ItemLists("session"), usr \in ItemLists("user") :
          BuildContext(budget, imm, proj, sess, usr, pr)

SpecContext == Init /\ [][NextContext]_vars

\* the completion providers under arbitrary contexts and oracle answers
NextTabx ==
    \/ \E cx \in Complexities, raw \in [LevelSet -> RawScores], nfiles \in 0..MaxFiles :
          GetCompletions(cx, raw, nfiles)
    \/ \E level \in CompletionLevels : MockCompleteCode(level)
    \/ \E level \in CompletionLevels, raw \in RawScores : TauriCompleteCode(level, raw)

SpecTabx == Init /\ [][NextTabx]_vars

\* the sidebar with the user, the timers and the AI service as environment
NextSidebar ==
    \/ \E folderName \in FolderNames : ToggleFolder(folderName)
    \/ \E v \in ChatInputs : SetChatInput(v)
    \/ SendMessage
    \/ ReplyTimeout
    \/ RenderSidebar
    \/ LoadSuggestions
    \/ \E files \in ServiceFiles : LoadResolved(files)
    \/ LoadRejected

SpecSidebar == Init /\ [][NextSidebar]_vars

\* the terminal with the user and the AI service as environment
NextTerminal ==
    \/ \E v \in CommandInputs : SetCurrentCommand(v)
    \/ ExecuteCommand
    \/ \E cmd \in 1..MaxCommands, response \in TerminalResponses :
          CommandResolved(cmd, response)
    \/ \E cmd \in 1..MaxCommands : CommandRejected(cmd)
    \/ RenderTerminal

SpecTerminal == Init /\ [][NextTerminal]_vars

\* the header bar with the user, the interval and the AI service as
\* environment
NextHeader ==
    \/ ToggleMobileMenu
    \/ LoadAIStatus
    \/ \E p \in 1..MaxPolls, status \in Statuses : StatusResolved(p, status)
    \/ \E p \in 1..MaxPolls : StatusRejected(p)
    \/ UnmountHeader

SpecHeader == Init /\ [][NextHeader]_vars

Next ==
    \/ NextEditor \/ NextStore \/ NextIndexer \/ NextIncremental \/ NextContext
    \/ NextTabx \/ NextSidebar \/ NextTerminal \/ NextHeader
Spec == Init /\ [][Next]_vars

(***************************************************************************)
(* Properties of the completion workflow (SpecEditor, FairSpecEditor).     *)
(***************************************************************************)
Shown(r) == currentSuggestion # NoSuggestion /\ currentSuggestion.req = r

\* C1: a request for which a newer trigger for the same (file, level)
\* arrived while it was pending is superseded: its result is never
\* delivered and never becomes the displayed suggestion.
C1_SupersededResultDiscarded ==
    \A r \in ReqIds :
       requests[r].superseded => Phase(r) # "Delivered" /\ ~Shown(r)

C3_FailureNeverMasked ==
    /\ modelCall.oracle = "error" => modelCall.returned = "failed"
    /\ \A r \in ReqIds :
          requests[r].oracle = "rejected" => Phase(r) = "Failed" /\ ~Shown(r)

\* C4: every request corresponds to one user action: the requests issued
\* never outnumber the edits made, counting the mounting of the editor with
\* its initial content as the first action.
C4_OneRequestPerUserAction == numIssued <= edits + 1

DeliveredPath ==
    <<"Idle", "ContextBuilding", "ModelInvocation", "PostProcessing", "Delivered">>
IsPrefix(s, t) == Len(s) <= Len(t) /\ \A i \in 1..Len(s) : s[i] = t[i]
Front(s) == SubSeq(s, 1, Len(s) - 1)

C6_EveryRequestEnds ==
    /\ \A r \in ReqIds : InFlight(r) ~> ~InFlight(r)
    /\ isLoadingSuggestion ~> ~isLoadingSuggestion

(***************************************************************************)
(* Properties of the vector store (SpecStore).                             *)
(***************************************************************************)
ResultIds(res) == {res[j].id : j \in 1..Len(res)}
Distinct(res) == \A i, j \in 1..Len(res) : res[i].id = res[j].id => i = j

C8_OneEntryPerId ==
    /\ \A i, j \in 1..Len(table) : table[i].id = table[j].id => i = j
    /\ \A i \in 1..Len(table) : table[i].embedding = Embed(table[i].content)
    /\ Distinct(lastQuery.results)
    /\ \A j \in 1..Len(lastQuery.results) :
          lastQuery.results[j].similarity =
             Similarity(Embed(lastQuery.results[j].content), lastQuery.q)

\* the case of C8: a query saw a block with one content, and an upsert has
\* since replaced that block's row by one with another content
C8_Witness ==
    \E j \in 1..Len(lastQuery.results) :
       \E i \in 1..Len(table) :
          /\ table[i].id = lastQuery.results[j].id
          /\ table[i].content # lastQuery.results[j].content

(***************************************************************************)
(* Properties of the indexer (SpecIndexer).                                *)
(***************************************************************************)
BlockView(rows) == {[id |-> r.id, content |-> r.content] : r \in rows}

\* the blocks of a file that a query returning every row sees
VisibleBlocks(path) ==
    UNION {UNION {BlockView({r \in Range(res) : r.file_path = path}) :
                     res \in search_similar(table, q, Len(table))} :
              q \in Queries}

\* C9: while updateIndex works on a file, a query sees for that file either
\* the complete block set of before the update or the complete new one.
C9_OldOrNewWhileUpdating ==
    job.kind = "updateIndex" =>
       VisibleBlocks(job.file) \in
          {BlockView(Range(job.before)), BlockView(RowsOf(job.file, job.content))}

Queued(f) == \E i \in 1..Len(indexQueue) : indexQueue[i].filePath = f

\* C11: once the re-index of a file for its latest onFileChanged has
\* completed, a query sees for that file only blocks of the new content and
\* no block of an earlier version.
C11_FreshAfterReindex ==
    \A f \in Files :
       (indexedContent[f] = fileContent[f] /\ ~Queued(f)) =>
          VisibleBlocks(f) \subseteq BlockView(RowsOf(f, fileContent[f]))

TasksOf(tasks, f) == {i \in 1..Len(tasks) : tasks[i].filePath = f}

\* C12: consecutive onFileChanged events for one file that reach the
\* processor together are coalesced: the batch runs one pass for the file.
C12_BurstCoalesced ==
    \A f \in Files : Cardinality(TasksOf(lastBatch.tasks, f)) <= 1

\* C13: when a file fails during indexCodebase (its parse or an embedding
\* throws), the run goes on: no file of the project is left unvisited.
C13_FailureDoesNotStopRun ==
    (job.kind = "indexCodebase" /\ job.stage = "failed") => job.queue = <<>>

(***************************************************************************)
(* Properties of the context assembler (SpecContext).                      *)
(***************************************************************************)
RECURSIVE SumLen(_, _)
SumLen(ctx, cats) ==
    IF cats = {} THEN 0
    ELSE LET c == CHOOSE x \in cats : TRUE
         IN Len(ctx[c]) + SumLen(ctx, cats \ {c})
ContextSize(ctx) == SumLen(ctx, Categories)

\* C14: the size of the assembled context never exceeds the configured
\* budget.
C14_WithinBudget == ContextSize(aiContext) <= ctxBudget

\* highest priority first; the code's project context holds the imported
\* symbols and the retrieved blocks
PriorityOrder == <<"immediate", "project", "session", "user">>
Cut(c) == Len(aiContext[c]) < Len(gathered[c])

\* C15: when the gathered material does not fit the budget, material is
\* dropped, and none of a category while a category of lower priority still
\* has an item in the context.
C15_DropsLowestPriorityFirst ==
    ContextSize(gathered) > ctxBudget =>
       /\ \E c \in Categories : Cut(c)
       /\ \A i, j \in 1..Len(PriorityOrder) :
             (i < j /\ Cut(PriorityOrder[i])) => aiContext[PriorityOrder[j]] = <<>>

(***************************************************************************)
(* Properties of the completion providers (SpecTabx).                      *)
(***************************************************************************)
Returned == calls["line"] # <<>>
FeatureCompletions == {i \in 1..Len(completions) : completions[i].type = "feature"}
StepsAt(t, step) == {i \in 1..Len(t) : t[i] = step}

\* C16: a feature-level request obtains its list of targets before its
\* first completion call and issues one completion call per target; the
\* line and block levels make completion calls only.
C16_PlanThenOneCallPerTarget ==
    /\ \A l \in {"line", "block"} : \A i \in 1..Len(calls[l]) : calls[l][i] = "complete"
    /\ \A i \in FeatureCompletions :
          LET t == calls["feature"]
          IN /\ \A p \in StepsAt(t, "parseMultiFileResponse"), c \in StepsAt(t, "complete") :
                   p < c
             /\ Cardinality(StepsAt(t, "complete")) = Len(completions[i].files)

\* C17: getCompletions returns exactly four completions, one for each
\* level, the line-level one first.
C17_FourCompletionsLineFirst ==
    Returned =>
       /\ Len(completions) = 4
       /\ \A l \in LevelSet : \E i \in 1..Len(completions) : completions[i].type = l
       /\ completions[1].type = "line"

InUnit(conf) == 0 <= conf /\ conf <= 1000

\* C19: every completion handed to a caller has a confidence within
\* [0, 1], and the percentage displayed for it lies in 0..100.
C19_ConfidenceInUnitInterval ==
    /\ \A i \in 1..Len(completions) :
          /\ InUnit(completions[i].confidence)
          /\ DisplayedPercent(completions[i].confidence) \in 0..100
    /\ InUnit(completionResult.confidence)
    /\ DisplayedPercent(completionResult.confidence) \in 0..100

\* the case of C19: scores under 0 and over 1 were computed for completions
\* of one answer, and the backend's score for a completeCode was over 1
C19_Witness ==
    /\ \E i, j \in 1..Len(completions) :
          completions[i].confidence = 0 /\ completions[j].confidence = 1000
    /\ completionResult.service = "tauri"
    /\ completionResult.confidence = 1000

(***************************************************************************)
(* Properties of the sidebar (SpecSidebar).                                *)
(***************************************************************************)
\* C18: when getAISuggestedFiles has rejected, the sidebar shows no
\* suggested file: nothing is put in the place of the missing answer.
C18_NoSubstituteOnFailure == loadState = "rejected" => suggestedFiles = <<>>

(***************************************************************************)
(* Order of equally similar results (SpecStore).                           *)
(***************************************************************************)
SimEq(s1, s2) == SimLE(s1, s2) /\ SimLE(s2, s1)
PathRank(path) == IF path = "a.ts" THEN 1 ELSE 2
\* the order of the strings `${path}:${startLine}`, start lines having one
\* digit
IdLess(a, b) ==
    \/ PathRank(a[1]) < PathRank(b[1])
    \/ a[1] = b[1] /\ a[2] < b[2]

\* C20: results of equal similarity come in a determined order; the table
\* keeping no modification time, it is the order of their block ids.
C20_TiesInIdOrder ==
    LET res == lastQuery.results
    IN \A j \in 1..(Len(res) - 1) :
          SimEq(res[j].similarity, res[j + 1].similarity) =>
             IdLess(res[j].id, res[j + 1].id)

(***************************************************************************)
(* Properties of the terminal (SpecTerminal).                              *)
(***************************************************************************)
PendingCommands == {c \in 1..Len(commands) : commands[c].state = "pending"}

\* C22: isThinking is true whenever a command awaits its response, and
\* false when none does.
C22_ThinkingIffPending == isThinking <=> PendingCommands # {}

CommandLineAt(cmd) ==
    {i \in 1..Len(history) : history[i].type = "command" /\ history[i].cmd = cmd}
ResponseLinesOf(cmd) ==
    {i \in 1..Len(history) : history[i].type # "command" /\ history[i].cmd = cmd}

\* C23: no line of the history is ever lost: the initial lines stay, every
\* executed command is non-blank and has exactly one command line, the
\* command lines stand in the order of submission, and the lines of an
\* answered command's response are there, after its command line.
C23_HistoryAppendOnly ==
    /\ IsPrefix(initialHistory, history)
    /\ \A c \in 1..Len(commands) :
          /\ Trim(commands[c].content) # <<>>
          /\ Cardinality(CommandLineAt(c)) = 1
          /\ commands[c].state # "pending" => ResponseLinesOf(c) # {}
          /\ \A i \in CommandLineAt(c) :
                /\ history[i].content = commands[c].content
                /\ \A j \in ResponseLinesOf(c) : i < j
                /\ \A d \in 1..(c - 1) : \A j \in CommandLineAt(d) : j < i

AnsweredCommands == {c \in 1..Len(commands) : commands[c].state # "pending"}
\* the lines the claim gives for the answer of a command
RECURSIVE SuggestionLines(_, _)
SuggestionLines(suggestions, cmd) ==
    IF suggestions = <<>> THEN <<>>
    ELSE <<TerminalLine("suggestion", <<"AI suggests", Head(suggestions)>>, cmd)>>
         \o SuggestionLines(Tail(suggestions), cmd)
ExpectedLines(c, cmd) ==
    IF c.state = "rejected"
    THEN <<TerminalLine("error", <<"Error executing command", "e">>, cmd)>>
    ELSE <<TerminalLine("output", <<c.response.output>>, cmd)>>
         \o (IF c.response.error = "" THEN <<>>
             ELSE <<TerminalLine("error", <<c.response.error>>, cmd)>>)
         \o SuggestionLines(c.response.suggestions, cmd)

\* C24: the step in which a command is answered appends to the history one
\* error line if the call rejected, and else one output line, one error
\* line if the response has an error and one suggestion line per suggestion
\* in order; it appends nothing else and leaves isThinking false.
C24_LinesOfResponse ==
    [][\A cmd \in AnsweredCommands' \ AnsweredCommands :
          /\ history' = history \o ExpectedLines(commands'[cmd], cmd)
          /\ ~isThinking']_vars

\* the case of C24: one command was rejected, another resolved with an
\* error and two suggestions
C24_Witness ==
    \E c, d \in 1..Len(commands) :
       /\ commands[c].state = "rejected"
       /\ commands[d].state = "resolved"
       /\ commands[d].response.error # ""
       /\ Len(commands[d].response.suggestions) = 2

(***************************************************************************)
(* Further properties of the CodeEditor (SpecEditor).                      *)
(***************************************************************************)
\* C25: showSuggestion is true exactly when currentSuggestion is not null.
C25_ShownIffSuggestion == showSuggestion <=> currentSuggestion # NoSuggestion

\* the case of C25: a suggestion was delivered and has been cleared again,
\* and another request has failed
C25_Witness ==
    /\ ~showSuggestion
    /\ \E r1, r2 \in ReqIds :
          /\ Issued(r1) /\ Phase(r1) = "Delivered"
          /\ Issued(r2) /\ Phase(r2) = "Failed"

\* C26: acceptSuggestion appends the separator and the suggestion's code
\* once to the unchanged content, rejectSuggestion leaves the content as it
\* is, and a failed request leaves code, showSuggestion and
\* currentSuggestion as they are.
C26_FrameOfAcceptRejectFail ==
    [][/\ AcceptSuggestion =>
             /\ IsPrefix(code, code')
             /\ code' = code \o <<Separator, currentSuggestion.code>>
       /\ RejectSuggestion => code' = code
       /\ (\E r \in ReqIds : OracleReject(r)) =>
             UNCHANGED <<code, showSuggestion, currentSuggestion>>]_vars

\* the case of C26: a suggestion was accepted into edited content and a
\* request has failed
C26_Witness ==
    /\ \E i \in 2..Len(code) : code[i] = Separator
    /\ edits > 0
    /\ \E r \in ReqIds : Issued(r) /\ Phase(r) = "Failed"

(***************************************************************************)
(* Properties of the header bar (SpecHeader).                              *)
(***************************************************************************)
AppliedPolls == {p \in 1..Len(polls) : polls[p].state = "resolved"}

\* C27: aiStatus is the response of the latest issued poll among those that
\* resolved while the component was mounted, and null when there is none:
\* an older poll's response never replaces a newer one's, a failed poll and
\* a response after the unmount change nothing.
C27_StatusOfLatestPoll ==
    IF AppliedPolls = {} THEN aiStatus = NoStatus
    ELSE aiStatus = polls[CHOOSE p \in AppliedPolls : \A q \in AppliedPolls : q <= p].status

(***************************************************************************)
(* Properties of the sidebar's chat and folders (SpecSidebar).             *)
(***************************************************************************)
\* C28: the chat keeps every message: the initial two stay in front, and
\* each message sent has its user line and, once its timer has fired, its
\* assistant reply, so that with no timer left there are 2 + n + n messages.
C28_EveryMessageKept ==
    /\ IsPrefix(chatHistory, messages)
    /\ Len(messages) = Len(chatHistory) + 2 * Sends - pendingReplies

\* C29: toggleFolder changes the membership of the named folder and of no
\* other, toggling the same folder twice gives the original set back, and
\* toggles of two folders give the same set in either order.
C29_ToggleIsInvolution ==
    \A a \in FolderNames :
        LET once == newExpanded(expandedFolders, a) IN
        /\ (a \in once) # (a \in expandedFolders)
        /\ once \ {a} = expandedFolders \ {a}
        /\ newExpanded(once, a) = expandedFolders
        /\ \A b \in FolderNames :
               newExpanded(once, b) = newExpanded(newExpanded(expandedFolders, b), a)

\* both folders have been toggled: "src" collapsed and "components" expanded
C29_Witness == expandedFolders = {"components"}

====
